---- MODULE Spec2Model ----
(***************************************************************************)
(* Model of the verification scoreboard in design/tb/tb.cc: the DelayPipe  *)
(* fixed-latency queue, the ValidationModel reference model (contexts of   *)
(* key/volume entries, notify and query prediction) and the per-cycle      *)
(* apply/step/reset protocol by which TB::run drives it.                   *)
(***************************************************************************)
EXTENDS Integers, Sequences, FiniteSets, TLC

(* ------------------------------------------------------------------ *)
(* Program constants and model bounds                                   *)
(* ------------------------------------------------------------------ *)

\* ValidationModel::UPDATE_PIPE_DELAY
UPDATE_PIPE_DELAY == 4

\* ValidationModel::QUERY_PIPE_DELAY
QUERY_PIPE_DELAY == 1

\* cfg::CONTEXT_N, the number of contexts (a build-time configuration value).
CONTEXT_N == 2

\* cfg::ENTRIES_N, the capacity of one context (a build-time configuration value).
ENTRIES_N == 2

\* Keys range over 1..MaxKey, volumes over 1..MaxVol.
MaxKey == 2

MaxVol == 2

\* Number of ValidationModel::step() calls explored by Spec.
MaxCycles == 3

\* Number of ValidationModel::step() calls explored by SpecLat.
MaxLatCycles == 11

\* Number of DelayPipe::step() calls explored by SpecPipe.
MaxPipeCycles == 15
MaxTBCycles == 4
MaxDupCycles == 4
MaxEmits == 2
MaxWaits == 2
MaxWait == 2
SizeBits == 2

Ids == 0 .. (CONTEXT_N - 1)

Keys == 1 .. MaxKey

Volumes == 1 .. MaxVol

Levels == 0 .. ENTRIES_N

(* ------------------------------------------------------------------ *)
(* Protocol value types                                                 *)
(* ------------------------------------------------------------------ *)

\* enum class Cmd, with the opcodes VDriver::Drive puts on i_upd_cmd.
Cmd == [Clr |-> 0, Add |-> 1, Del |-> 2, Rep |-> 3]

\* UpdateCommand::UpdateCommand(): only vld_ is set; the other fields are
\* never read while vld_ is false and are kept at 0 here.
UpdateCommand0 == [vld |-> FALSE, prod_id |-> 0, cmd |-> 0, key |-> 0, volume |-> 0]

\* UpdateCommand::UpdateCommand(id, cmd, key, volume)
UpdateCommand(id, cmd, key, volume) ==
  [vld |-> TRUE, prod_id |-> id, cmd |-> cmd, key |-> key, volume |-> volume]

\* QueryCommand::QueryCommand()
QueryCommand0 == [vld |-> FALSE, prod_id |-> 0, level |-> 0]

\* QueryCommand::QueryCommand(id, level)
QueryCommand(id, level) == [vld |-> TRUE, prod_id |-> id, level |-> level]

\* QueryResponse::QueryResponse()
QueryResponse0 ==
  [vld |-> FALSE, key |-> 0, volume |-> 0, error |-> FALSE, listsize |-> 0]

\* QueryResponse::QueryResponse(key, volume, error, listsize)
QueryResponse(key, volume, error, listsize) ==
  [vld |-> TRUE, key |-> key, volume |-> volume, error |-> error,
   listsize |-> listsize]

\* NotifyResponse::NotifyResponse()
NotifyResponse0 == [vld |-> FALSE, prod_id |-> 0, key |-> 0, volume |-> 0]

\* NotifyResponse::NotifyResponse(id, key, volume)
NotifyResponse(id, key, volume) ==
  [vld |-> TRUE, prod_id |-> id, key |-> key, volume |-> volume]

\* ValidationModel::Entry
Entry(key, volume) == [key |-> key, volume |-> volume]

\* ValidationModel::Entry::operator<
Entry_lt(lhs, rhs) == lhs.key < rhs.key

(* ------------------------------------------------------------------ *)
(* DelayPipe<T, N>                                                      *)
(* ------------------------------------------------------------------ *)

\* A plausible slip: both cursors are rewound to slot 0.
DelayPipe_clear_rewound(N, T0) ==
  [p |-> [i \in 0 .. N |-> T0], wr_ptr |-> 0, rd_ptr |-> 0]

\* DelayPipe::clear(): every slot becomes T{}, wr_ptr_ = N, rd_ptr_ = 0.
\* (The constructor is clear().)
DelayPipe_clear(N, T0) ==
  [p |-> [i \in 0 .. N |-> T0], wr_ptr |-> N, rd_ptr |-> 0]

\* DelayPipe::push_back(t): p_[wr_ptr_] = t.
DelayPipe_push_back(dp, t) == [dp EXCEPT !.p[dp.wr_ptr] = t]

\* DelayPipe::head(): p_[rd_ptr_].
DelayPipe_head(dp) == dp.p[dp.rd_ptr]

\* A plausible slip: only the read cursor advances.
DelayPipe_step_rdonly(dp, N) ==
  [dp EXCEPT !.rd_ptr = (dp.rd_ptr + 1) % (N + 1)]

\* DelayPipe::step(): both cursors advance by one modulo N + 1.
DelayPipe_step(dp, N) ==
  [dp EXCEPT !.wr_ptr = (dp.wr_ptr + 1) % (N + 1),
             !.rd_ptr = (dp.rd_ptr + 1) % (N + 1)]

(* ------------------------------------------------------------------ *)
(* std::vector<Entry> operations used by ValidationModel                *)
(* ------------------------------------------------------------------ *)

\* The number of leading elements of s that e is not less than: the place
\* where a stable sort leaves e when it is appended to the sorted s.
RECURSIVE UpperBound(_, _)
UpperBound(s, e) ==
  IF s = <<>> THEN 0
  ELSE IF Entry_lt(e, Head(s)) THEN 0
  ELSE 1 + UpperBound(Tail(s), e)

\* A plausible slip: an unstable insertion that puts e before its equals.
InsertSorted_unstable(s, e) ==
  LET n == Cardinality({i \in 1 .. Len(s) : Entry_lt(s[i], e)})
  IN SubSeq(s, 1, n) \o <<e>> \o SubSeq(s, n + 1, Len(s))

\* One insertion step of a stable sort: e goes after every element that is
\* not greater than it.
InsertSorted(s, e) ==
  LET n == UpperBound(s, e)
  IN SubSeq(s, 1, n) \o <<e>> \o SubSeq(s, n + 1, Len(s))

\* std::stable_sort(ctxt.begin(), ctxt.end()) under Entry::operator<,
\* computed as a stable insertion sort over the whole vector.
RECURSIVE stable_sort(_)
stable_sort(s) ==
  IF s = <<>> THEN <<>>
  ELSE InsertSorted(stable_sort(SubSeq(s, 1, Len(s) - 1)), s[Len(s)])

\* A plausible slip: the search runs from the back and finds the last match.
find_if_last(ctxt, key) ==
  LET hits == {i \in 1 .. Len(ctxt) : ctxt[i].key = key}
  IN IF hits = {} THEN Len(ctxt) + 1
     ELSE CHOOSE i \in hits : \A j \in hits : i >= j

\* std::find_if(ctxt.begin(), ctxt.end(), find_key): the index of the first
\* entry whose key is key, or Len(ctxt) + 1 for ctxt.end().
find_if(ctxt, key) ==
  LET hits == {i \in 1 .. Len(ctxt) : ctxt[i].key = key}
  IN IF hits = {} THEN Len(ctxt) + 1
     ELSE CHOOSE i \in hits : \A j \in hits : i <= j

\* std::vector::erase(it)
erase(ctxt, it) == SubSeq(ctxt, 1, it - 1) \o SubSeq(ctxt, it + 1, Len(ctxt))

\* A plausible slip: the head is dropped on overflow instead of the tail.
pop_back_front(ctxt) == Tail(ctxt)

\* std::vector::pop_back()
pop_back(ctxt) == SubSeq(ctxt, 1, Len(ctxt) - 1)

(* ------------------------------------------------------------------ *)
(* ValidationModel                                                      *)
(* ------------------------------------------------------------------ *)

\* Each handle_uc_* case yields the context after the command, the local
\* NotifyResponse nr, and whether control reaches notify_pipe_.push_back(nr).

\* A plausible slip: the context is cleared before the head is captured.
handle_uc_Clr_late(uc, ctxt) ==
  [ctxt |-> <<>>, nr |-> NotifyResponse0, push |-> TRUE]

\* handle_uc, case Cmd::Clr
handle_uc_Clr(uc, ctxt) ==
  [ctxt |-> <<>>,
   nr   |-> IF ctxt # <<>>
            THEN NotifyResponse(uc.prod_id, ctxt[1].key, ctxt[1].volume)
            ELSE NotifyResponse0,
   push |-> TRUE]

\* A plausible slip: every Add raises a notify.
handle_uc_Add_always(uc, ctxt) ==
  LET sorted == stable_sort(Append(ctxt, Entry(uc.key, uc.volume)))
  IN [ctxt |-> IF Len(sorted) > ENTRIES_N THEN pop_back(sorted) ELSE sorted,
      nr   |-> NotifyResponse(uc.prod_id, uc.key, uc.volume),
      push |-> TRUE]

\* handle_uc, case Cmd::Add
handle_uc_Add(uc, ctxt) ==
  LET sorted == stable_sort(Append(ctxt, Entry(uc.key, uc.volume)))
  IN [ctxt |-> IF Len(sorted) > ENTRIES_N THEN pop_back(sorted) ELSE sorted,
      nr   |-> IF ctxt = <<>>
               THEN NotifyResponse(uc.prod_id, uc.key, uc.volume)
               ELSE NotifyResponse0,
      push |-> TRUE]

\* A plausible slip: the notify is formed after the entry was replaced.
handle_uc_RepDel_after(uc, ctxt) ==
  LET hits == {i \in 1 .. Len(ctxt) : ctxt[i].key = uc.key}
      it == IF hits = {} THEN Len(ctxt) + 1
            ELSE CHOOSE i \in hits : \A j \in hits : i <= j
  IN IF it = Len(ctxt) + 1
     THEN [ctxt |-> ctxt, nr |-> NotifyResponse0, push |-> FALSE]
     ELSE [ctxt |-> IF uc.cmd = Cmd.Rep
                    THEN [ctxt EXCEPT ![it].volume = uc.volume]
                    ELSE SubSeq(ctxt, 1, it - 1) \o SubSeq(ctxt, it + 1, Len(ctxt)),
           nr   |-> IF it = 1
                    THEN NotifyResponse(uc.prod_id, ctxt[it].key,
                           IF uc.cmd = Cmd.Rep THEN uc.volume ELSE ctxt[it].volume)
                    ELSE NotifyResponse0,
           push |-> TRUE]

\* handle_uc, cases Cmd::Rep and Cmd::Del.  When the key is not found the
\* handler returns before the push_back at the end of handle_uc.
handle_uc_RepDel(uc, ctxt) ==
  LET it == find_if(ctxt, uc.key)
  IN IF it = Len(ctxt) + 1
     THEN [ctxt |-> ctxt, nr |-> NotifyResponse0, push |-> FALSE]
     ELSE [ctxt |-> IF uc.cmd = Cmd.Rep
                    THEN [ctxt EXCEPT ![it].volume = uc.volume]
                    ELSE erase(ctxt, it),
           nr   |-> IF it = 1
                    THEN NotifyResponse(uc.prod_id, ctxt[it].key, ctxt[it].volume)
                    ELSE NotifyResponse0,
           push |-> TRUE]

\* A plausible slip: Clr empties the whole table, not the addressed context.
handle_uc_spill(uc, tbl, np) ==
  IF ~uc.vld
  THEN [tbl |-> tbl, notify_pipe |-> DelayPipe_push_back(np, NotifyResponse0),
        pushes |-> 1, fatal |-> FALSE]
  ELSE IF ~(uc.prod_id < CONTEXT_N)
  THEN [tbl |-> tbl, notify_pipe |-> np, pushes |-> 0, fatal |-> TRUE]
  ELSE LET ctxt == tbl[uc.prod_id]
           r == CASE uc.cmd = Cmd.Clr -> handle_uc_Clr(uc, ctxt)
                  [] uc.cmd = Cmd.Add -> handle_uc_Add(uc, ctxt)
                  [] OTHER -> handle_uc_RepDel(uc, ctxt)
       IN [tbl |-> IF uc.cmd = Cmd.Clr THEN [i \in Ids |-> <<>>]
                   ELSE [tbl EXCEPT ![uc.prod_id] = r.ctxt],
           notify_pipe |-> IF r.push THEN DelayPipe_push_back(np, r.nr) ELSE np,
           pushes |-> IF r.push THEN 1 ELSE 0, fatal |-> FALSE]

\* ValidationModel::handle_uc(): the table and the notify pipe after it, the
\* number of push_back calls it made on the notify pipe, and whether its
\* ASSERT_LT failed.  A failed ASSERT_LT records a fatal failure and returns
\* from handle_uc alone, before the context is touched and before push_back.
handle_uc(uc, tbl, np) ==
  IF ~uc.vld
  THEN [tbl |-> tbl, notify_pipe |-> DelayPipe_push_back(np, NotifyResponse0),
        pushes |-> 1, fatal |-> FALSE]
  ELSE IF ~(uc.prod_id < CONTEXT_N)
  THEN [tbl |-> tbl, notify_pipe |-> np, pushes |-> 0, fatal |-> TRUE]
  ELSE LET ctxt == tbl[uc.prod_id]
           r == CASE uc.cmd = Cmd.Clr -> handle_uc_Clr(uc, ctxt)
                  [] uc.cmd = Cmd.Add -> handle_uc_Add(uc, ctxt)
                  [] OTHER -> handle_uc_RepDel(uc, ctxt)
       IN [tbl |-> [tbl EXCEPT ![uc.prod_id] = r.ctxt],
           notify_pipe |-> IF r.push THEN DelayPipe_push_back(np, r.nr) ELSE np,
           pushes |-> IF r.push THEN 1 ELSE 0, fatal |-> FALSE]

\* A plausible slip: the range test is strict.
query_response_strict(qc, ctxt) ==
  IF qc.level > Len(ctxt) \/ ctxt = <<>>
  THEN QueryResponse(0, 0, TRUE, 0)
  ELSE LET e == ctxt[IF qc.level = Len(ctxt) THEN Len(ctxt) ELSE qc.level + 1]
       IN QueryResponse(e.key, e.volume, FALSE, Len(ctxt))

\* handle_qc, the response computed for a valid QueryCommand on ctxt.
query_response(qc, ctxt) ==
  IF qc.level >= Len(ctxt)
  THEN QueryResponse(0, 0, TRUE, 0)
  ELSE LET e == ctxt[qc.level + 1]
       IN QueryResponse(e.key, e.volume, FALSE, Len(ctxt))

\* ValidationModel::handle_qc(): the query pipe after it, the number of
\* push_back calls it made, and whether its ASSERT_LT failed, in which case
\* it returned before the context was read and before push_back.
handle_qc(qc, tbl, qp) ==
  IF qc.vld /\ ~(qc.prod_id < CONTEXT_N)
  THEN [queries_pipe |-> qp, pushes |-> 0, fatal |-> TRUE]
  ELSE LET qr == IF qc.vld THEN query_response(qc, tbl[qc.prod_id])
                 ELSE QueryResponse0
       IN [queries_pipe |-> DelayPipe_push_back(qp, qr), pushes |-> 1,
           fatal |-> FALSE]

\* A plausible slip: the volume is left out of the comparison.
handle_nr_novolume(np, actual) ==
  LET predicted == DelayPipe_head(np)
  IN \/ predicted.vld # actual.vld
     \/ /\ predicted.vld
        /\ \/ predicted.prod_id # actual.prod_id
           \/ predicted.key # actual.key

\* ValidationModel::handle_nr(): TRUE iff one of its EXPECT_EQ fails.
handle_nr(np, actual) ==
  LET predicted == DelayPipe_head(np)
  IN \/ predicted.vld # actual.vld
     \/ /\ predicted.vld
        /\ \/ predicted.prod_id # actual.prod_id
           \/ predicted.key # actual.key
           \/ predicted.volume # actual.volume

\* A plausible slip: the query is answered before the update is processed.
ValidationModel_step_qfirst(tbl, np, qp, uc, qc, nr) ==
  LET np1 == DelayPipe_step(np, UPDATE_PIPE_DELAY)
      qp1 == DelayPipe_step(qp, QUERY_PIPE_DELAY)
      rq  == handle_qc(qc, tbl, qp1)
      ru  == handle_uc(uc, tbl, np1)
  IN [tbl |-> ru.tbl, notify_pipe |-> ru.notify_pipe,
      queries_pipe |-> rq.queries_pipe,
      pushes |-> [notify |-> ru.pushes, query |-> rq.pushes],
      mismatch |-> handle_nr(ru.notify_pipe, nr),
      fatal |-> ru.fatal \/ rq.fatal]

\* A plausible slip: a failed comparison discards the staged prediction.
ValidationModel_step_drop(tbl, np, qp, uc, qc, nr) ==
  LET np1 == DelayPipe_step(np, UPDATE_PIPE_DELAY)
      qp1 == DelayPipe_step(qp, QUERY_PIPE_DELAY)
      ru  == handle_uc(uc, tbl, np1)
      rq  == handle_qc(qc, ru.tbl, qp1)
      bad == handle_nr(ru.notify_pipe, nr)
  IN [tbl |-> ru.tbl,
      notify_pipe |-> IF bad THEN DelayPipe_push_back(ru.notify_pipe, NotifyResponse0)
                      ELSE ru.notify_pipe,
      queries_pipe |-> rq.queries_pipe,
      pushes |-> [notify |-> ru.pushes, query |-> rq.pushes],
      mismatch |-> bad,
      fatal |-> ru.fatal \/ rq.fatal]

\* ValidationModel::step() on the members (tbl, np, qp) with the applied
\* uc, qc and nr: both pipes step, then handle_uc, handle_qc, handle_nr.
ValidationModel_step(tbl, np, qp, uc, qc, nr) ==
  LET np1 == DelayPipe_step(np, UPDATE_PIPE_DELAY)
      qp1 == DelayPipe_step(qp, QUERY_PIPE_DELAY)
      ru  == handle_uc(uc, tbl, np1)
      rq  == handle_qc(qc, ru.tbl, qp1)
  IN [tbl |-> ru.tbl, notify_pipe |-> ru.notify_pipe,
      queries_pipe |-> rq.queries_pipe,
      pushes |-> [notify |-> ru.pushes, query |-> rq.pushes],
      mismatch |-> handle_nr(ru.notify_pipe, nr),
      fatal |-> ru.fatal \/ rq.fatal]

\* A plausible slip: the last context is left out of the loop.
ValidationModel_reset_short(tbl) ==
  [i \in Ids |-> IF i < CONTEXT_N - 1 THEN <<>> ELSE tbl[i]]

\* ValidationModel::reset(): every context is cleared; nothing else is.
ValidationModel_reset(tbl) == [i \in Ids |-> <<>>]

\* Instruction::make_emit(uc, qc).  n is left uninitialised by the code and
\* never read for an Emit; n0 records the n the instruction was made with.
Instruction_make_emit(uc, qc) ==
  [op |-> "Emit", n |-> 0, n0 |-> 0, uc |-> uc, qc |-> qc]

\* Instruction::make_wait(n)
Instruction_make_wait(n) ==
  [op |-> "WaitCycles", n |-> n, n0 |-> n, uc |-> UpdateCommand0,
   qc |-> QueryCommand0]

\* The number of values of the counter n: std::size_t arithmetic wraps, and
\* the counter is kept SizeBits wide here.
SizeMod == 2 ^ SizeBits

\* A plausible slip: the instruction processed and removed is the last one.
Directed_on_negedge_clk_back(d) ==
  IF d = <<>>
  THEN [d |-> d, any |-> FALSE, emit |-> FALSE, uc |-> UpdateCommand0,
        qc |-> QueryCommand0]
  ELSE LET i == d[Len(d)]
           rest == SubSeq(d, 1, Len(d) - 1)
       IN IF i.op = "WaitCycles"
          THEN LET n1 == (i.n + SizeMod - 1) % SizeMod
               IN [d |-> IF n1 = 0 THEN rest
                         ELSE rest \o <<[i EXCEPT !.n = n1]>>,
                   any |-> TRUE, emit |-> FALSE, uc |-> UpdateCommand0,
                   qc |-> QueryCommand0]
          ELSE [d |-> rest, any |-> TRUE, emit |-> TRUE, uc |-> i.uc,
                qc |-> i.qc]

\* Directed::Impl::on_negedge_clk on the queue d: the queue after the call
\* and what the call issued (any: whether it issued at all; emit: whether it
\* issued the commands of an Emit).  An empty queue issues nothing; WaitCycles
\* issues invalid commands and is popped when --n == 0; Emit issues its
\* commands and is popped.
Directed_on_negedge_clk(d) ==
  IF d = <<>>
  THEN [d |-> d, any |-> FALSE, emit |-> FALSE, uc |-> UpdateCommand0,
        qc |-> QueryCommand0]
  ELSE LET i == Head(d)
       IN IF i.op = "WaitCycles"
          THEN LET n1 == (i.n + SizeMod - 1) % SizeMod
               IN [d |-> IF n1 = 0 THEN Tail(d)
                         ELSE <<[i EXCEPT !.n = n1]>> \o Tail(d),
                   any |-> TRUE, emit |-> FALSE, uc |-> UpdateCommand0,
                   qc |-> QueryCommand0]
          ELSE [d |-> Tail(d), any |-> TRUE, emit |-> TRUE, uc |-> i.uc,
                qc |-> i.qc]

(* ------------------------------------------------------------------ *)
(* State                                                                *)
(* ------------------------------------------------------------------ *)

VARIABLES
  tbl_,           \* ValidationModel::tbl_, one sequence of Entry per context
  notify_pipe_,   \* ValidationModel::notify_pipe_
  queries_pipe_,  \* ValidationModel::queries_pipe_
  uc_,            \* ValidationModel::uc_
  qc_,            \* ValidationModel::qc_
  qr_,            \* ValidationModel::qr_
  nr_,            \* ValidationModel::nr_
  op,             \* the last operation executed on the model
  pushes,         \* push_back calls made on each pipe by the last step()
  mismatch,       \* whether handle_nr of the last step() failed an EXPECT_EQ
  nop_hist,       \* nop_hist[j]: the update processed j steps ago was a
                  \* valid Del/Rep whose key was absent
  cycle,          \* number of step() calls so far
  dp,             \* a DelayPipe<NotifyResponse, UPDATE_PIPE_DELAY> on its own
  dcycle,         \* number of dp.step() calls so far
  dpushed,        \* dpushed[t + 1]: the value pushed into dp in cycle t
  dphase,         \* "push": a push_back is due; "step": a step is due
  dop,            \* the last member function called on dp
  tb_time_,       \* TB::tb_time_
  clk,            \* uut_->clk
  rst,            \* uut_->rst
  do_stepping,    \* the local do_stepping of TB::run
  returned,       \* whether TB::run has returned
  status,         \* the directive of the last on_negedge_clk call
  calls,          \* number of on_negedge_clk calls so far
  resets,         \* number of mdl_.reset() calls made by TB::run so far
  fatal,          \* whether an ASSERT_LT has recorded a fatal failure
  tb_up,          \* the local up of TB::run
  tb_qc,          \* the local qc of TB::run
  tb_sup,         \* what the test supplied in its last on_negedge_clk call
  i_upd,          \* the update command inputs of the hardware
  i_lut,          \* the query command inputs of the hardware
  d_,             \* Directed::d_, the instruction queue of the directed test
  d_pushed,       \* the (uc, qc) pairs given to Directed::push_back so far
  d_issued,       \* the (uc, qc) pairs of the Emit instructions issued so far
  d_last,         \* what the last on_negedge_clk call issued, if anything
  d_idle,         \* calls spent so far on the instruction now at the front
  d_op,           \* the last member function called on the directed test
  d_waits         \* number of Directed::wait_cycles calls so far

vars == <<tbl_, notify_pipe_, queries_pipe_, uc_, qc_, qr_, nr_, op, pushes,
          mismatch, nop_hist, cycle, dp, dcycle, dpushed, dphase, dop,
          tb_time_, clk, rst, do_stepping, returned, status, calls, resets,
          fatal, tb_up, tb_qc, tb_sup, i_upd, i_lut,
          d_, d_pushed, d_issued, d_last, d_idle, d_op, d_waits>>

mdl_vars == <<tbl_, notify_pipe_, queries_pipe_, uc_, qc_, qr_, nr_, op,
              pushes, mismatch, nop_hist, cycle>>

pipe_vars == <<dp, dcycle, dpushed, dphase, dop>>

tb_vars == <<tb_time_, clk, rst, do_stepping, returned, status, calls, resets,
             fatal, tb_up, tb_qc, tb_sup, i_upd, i_lut>>

dir_vars == <<d_, d_pushed, d_issued, d_last, d_idle, d_op, d_waits>>

\* The locals and hardware inputs that only a falling-edge iteration writes.
stim_vars == <<tb_up, tb_qc, tb_sup, i_upd, i_lut>>

\* ValidationModel::ValidationModel(): default member initialisers, the
\* DelayPipe constructors, and reset().
MdlInit ==
  /\ tbl_ = [i \in Ids |-> <<>>]
  /\ notify_pipe_ = DelayPipe_clear(UPDATE_PIPE_DELAY, NotifyResponse0)
  /\ queries_pipe_ = DelayPipe_clear(QUERY_PIPE_DELAY, QueryResponse0)
  /\ uc_ = UpdateCommand0
  /\ qc_ = QueryCommand0
  /\ qr_ = QueryResponse0
  /\ nr_ = NotifyResponse0
  /\ op = "init"
  /\ pushes = [notify |-> 0, query |-> 0]
  /\ mismatch = FALSE
  /\ nop_hist = [j \in 0 .. UPDATE_PIPE_DELAY |-> FALSE]
  /\ cycle = 0

\* DelayPipe::DelayPipe()
PipeInit ==
  /\ dp = DelayPipe_clear(UPDATE_PIPE_DELAY, NotifyResponse0)
  /\ dcycle = 0
  /\ dpushed = <<>>
  /\ dphase = "push"
  /\ dop = "init"

\* TB::run up to the loop: tb_time_ = 0, clk = 0, rst = 0, do_stepping = true.
TBInit ==
  /\ tb_time_ = 0
  /\ clk = 0
  /\ rst = FALSE
  /\ do_stepping = TRUE
  /\ returned = FALSE
  /\ status = "None"
  /\ calls = 0
  /\ resets = 0
  /\ fatal = FALSE
  /\ tb_up = UpdateCommand0
  /\ tb_qc = QueryCommand0
  /\ tb_sup = <<UpdateCommand0, QueryCommand0>>
  /\ i_upd = [vld |-> FALSE, prod_id |-> 0, cmd |-> 0, key |-> 0, size |-> 0]
  /\ i_lut = [vld |-> FALSE, prod_id |-> 0, level |-> 0]

\* Directed::Directed(): an empty instruction queue.
DirInit ==
  /\ d_ = <<>>
  /\ d_pushed = <<>>
  /\ d_issued = <<>>
  /\ d_last = [any |-> FALSE, uc |-> UpdateCommand0, qc |-> QueryCommand0]
  /\ d_idle = 0
  /\ d_op = "init"
  /\ d_waits = 0

Init == MdlInit /\ PipeInit /\ TBInit /\ DirInit

(* ------------------------------------------------------------------ *)
(* Stimulus                                                             *)
(* ------------------------------------------------------------------ *)

\* The update commands a test may issue in one cycle.  Clr carries no key
\* or volume and Del no volume that the model reads; they are issued as 0.
UpdateCommands ==
  {UpdateCommand0}
    \cup {UpdateCommand(i, Cmd.Clr, 0, 0) : i \in Ids}
    \cup {UpdateCommand(i, Cmd.Add, k, v) : i \in Ids, k \in Keys, v \in Volumes}
    \cup {UpdateCommand(i, Cmd.Del, k, 0) : i \in Ids, k \in Keys}
    \cup {UpdateCommand(i, Cmd.Rep, k, v) : i \in Ids, k \in Keys, v \in Volumes}

\* The query commands a test may issue in one cycle.
QueryCommands ==
  {QueryCommand0} \cup {QueryCommand(i, l) : i \in Ids, l \in Levels}

\* What VDriver::Sample may read from the notify interface.
SampledNotify == {NotifyResponse0}

\* What VDriver::Sample may read from the query response interface.
SampledQuery == {QueryResponse(0, 0, TRUE, 0)}

\* Whether uc is a valid Del/Rep whose key is not in its context.
AbsentKey(uc, tbl) ==
  /\ uc.vld
  /\ uc.cmd \in {Cmd.Del, Cmd.Rep}
  /\ \A j \in 1 .. Len(tbl[uc.prod_id]) : tbl[uc.prod_id][j].key # uc.key

(* ------------------------------------------------------------------ *)
(* Operations                                                           *)
(* ------------------------------------------------------------------ *)

\* One falling-edge cycle of TB::run as seen by the model: the four apply()
\* calls followed by ValidationModel::step().
Cycle(up, qc, nr, qr) ==
  LET r == ValidationModel_step(tbl_, notify_pipe_, queries_pipe_, up, qc, nr)
  IN /\ uc_' = up
     /\ qc_' = qc
     /\ nr_' = nr
     /\ qr_' = qr
     /\ tbl_' = r.tbl
     /\ notify_pipe_' = r.notify_pipe
     /\ queries_pipe_' = r.queries_pipe
     /\ pushes' = r.pushes
     /\ mismatch' = r.mismatch
     /\ nop_hist' = [j \in 0 .. UPDATE_PIPE_DELAY |->
                       IF j = 0 THEN AbsentKey(up, tbl_) ELSE nop_hist[j - 1]]
     /\ op' = "step"
     /\ cycle' = cycle + 1
     /\ UNCHANGED pipe_vars
     /\ UNCHANGED tb_vars
     /\ UNCHANGED dir_vars

\* ValidationModel::reset(), a public member that may be called in any
\* state of the model, the freshly constructed one included.
Reset ==
  /\ tbl_' = ValidationModel_reset(tbl_)
  /\ op' = "reset"
  /\ UNCHANGED <<notify_pipe_, queries_pipe_, uc_, qc_, qr_, nr_, pushes,
                 mismatch, nop_hist, cycle>>
  /\ UNCHANGED pipe_vars
  /\ UNCHANGED tb_vars
  /\ UNCHANGED dir_vars

\* A test issuing arbitrary commands for MaxCycles cycles.
Step ==
  /\ cycle < MaxCycles
  /\ \E up \in UpdateCommands, qc \in QueryCommands, nr \in SampledNotify,
        qr \in SampledQuery : Cycle(up, qc, nr, qr)

Next == Step \/ Reset

Spec == Init /\ [][Next]_vars

(* ------------------------------------------------------------------ *)
(* SpecLat: the model driven long enough for the notify pipe to wrap    *)
(* ------------------------------------------------------------------ *)

\* A directed test that only addresses key 1 of context 0.
LatUpdateCommands ==
  {UpdateCommand0, UpdateCommand(0, Cmd.Clr, 0, 0), UpdateCommand(0, Cmd.Add, 1, 1),
   UpdateCommand(0, Cmd.Del, 1, 0), UpdateCommand(0, Cmd.Rep, 1, 1)}

\* The hardware raises no notify, or (0, 1, 1), or a notify that differs
\* from (0, 1, 1) in the context id, in the key or in the volume.
LatSampledNotify ==
  {NotifyResponse0, NotifyResponse(0, 1, 1), NotifyResponse(1, 1, 1),
   NotifyResponse(0, 2, 1), NotifyResponse(0, 1, 2)}

StepLat ==
  /\ cycle < MaxLatCycles
  /\ \E up \in LatUpdateCommands, nr \in LatSampledNotify,
        qr \in SampledQuery : Cycle(up, QueryCommand0, nr, qr)

NextLat == StepLat \/ Reset

SpecLat == Init /\ [][NextLat]_vars

(* ------------------------------------------------------------------ *)
(* SpecDup: the model driven by a test that stamps every Add             *)
(* ------------------------------------------------------------------ *)

\* The updates of cycle c: an Add carries the volume c + 1, which no other
\* Add carries, and a Rep carries the volume 0, which no Add carries.
DupUpdateCommands(c) ==
  {UpdateCommand0}
    \cup {UpdateCommand(i, Cmd.Clr, 0, 0) : i \in Ids}
    \cup {UpdateCommand(i, Cmd.Add, k, c + 1) : i \in Ids, k \in Keys}
    \cup {UpdateCommand(i, Cmd.Del, k, 0) : i \in Ids, k \in Keys}
    \cup {UpdateCommand(i, Cmd.Rep, k, 0) : i \in Ids, k \in Keys}

StepDup ==
  /\ cycle < MaxDupCycles
  /\ \E up \in DupUpdateCommands(cycle), nr \in SampledNotify,
        qr \in SampledQuery : Cycle(up, QueryCommand0, nr, qr)

NextDup == StepDup

SpecDup == Init /\ [][NextDup]_vars

(* ------------------------------------------------------------------ *)
(* SpecPipe: one DelayPipe used as its contract asks, one push_back     *)
(* between successive step() calls                                      *)
(* ------------------------------------------------------------------ *)

\* push_back in cycle dcycle of either T{} or a value tagged with the cycle.
PipePush ==
  /\ dphase = "push"
  /\ \E v \in {NotifyResponse0, NotifyResponse(0, dcycle, 0)} :
        /\ dp' = DelayPipe_push_back(dp, v)
        /\ dpushed' = Append(dpushed, v)
  /\ dphase' = "step"
  /\ UNCHANGED <<dcycle, dop>>
  /\ UNCHANGED mdl_vars
  /\ UNCHANGED tb_vars
  /\ UNCHANGED dir_vars

\* step() opens the next cycle.
PipeStep ==
  /\ dphase = "step"
  /\ dcycle < MaxPipeCycles
  /\ dp' = DelayPipe_step(dp, UPDATE_PIPE_DELAY)
  /\ dcycle' = dcycle + 1
  /\ dphase' = "push"
  /\ UNCHANGED <<dpushed, dop>>
  /\ UNCHANGED mdl_vars
  /\ UNCHANGED tb_vars
  /\ UNCHANGED dir_vars

NextPipe == PipePush \/ PipeStep

SpecPipe == Init /\ [][NextPipe]_vars

(* ------------------------------------------------------------------ *)
(* SpecPipeFree: one DelayPipe whose members are called in any order     *)
(* ------------------------------------------------------------------ *)

\* dp.push_back(v) for either T{} or a valid value.
FreePush ==
  /\ \E v \in {NotifyResponse0, NotifyResponse(0, 1, 1)} :
        dp' = DelayPipe_push_back(dp, v)
  /\ dop' = "push_back"
  /\ UNCHANGED <<dcycle, dpushed, dphase>>
  /\ UNCHANGED mdl_vars
  /\ UNCHANGED tb_vars
  /\ UNCHANGED dir_vars

\* dp.step()
FreeStep ==
  /\ dp' = DelayPipe_step(dp, UPDATE_PIPE_DELAY)
  /\ dop' = "step"
  /\ UNCHANGED <<dcycle, dpushed, dphase>>
  /\ UNCHANGED mdl_vars
  /\ UNCHANGED tb_vars
  /\ UNCHANGED dir_vars

\* dp.head(): a const member, the pipe is read and not written.
FreeHead ==
  /\ DelayPipe_head(dp) \in {NotifyResponse0, NotifyResponse(0, 1, 1)}
  /\ dop' = "head"
  /\ UNCHANGED <<dp, dcycle, dpushed, dphase>>
  /\ UNCHANGED mdl_vars
  /\ UNCHANGED tb_vars
  /\ UNCHANGED dir_vars

\* dp.clear()
FreeClear ==
  /\ dp' = DelayPipe_clear(UPDATE_PIPE_DELAY, NotifyResponse0)
  /\ dop' = "clear"
  /\ UNCHANGED <<dcycle, dpushed, dphase>>
  /\ UNCHANGED mdl_vars
  /\ UNCHANGED tb_vars
  /\ UNCHANGED dir_vars

NextPipeFree == FreePush \/ FreeStep \/ FreeHead \/ FreeClear

SpecPipeFree == Init /\ [][NextPipeFree]_vars

(* ------------------------------------------------------------------ *)
(* SpecTB: the drive loop of TB::run, one action per loop iteration      *)
(* ------------------------------------------------------------------ *)

\* The directives on_negedge_clk may return, as TB::run switches on them.
Directives == {"ApplyReset", "RescindReset", "Terminate", "Continue"}

\* What a test may leave in (up, qc) in one call: nothing, an Add to the
\* last context, an Add or a query to the context one past the last.
TBStimulus ==
  {<<UpdateCommand0, QueryCommand0>>,
   <<UpdateCommand(CONTEXT_N - 1, Cmd.Add, 1, 1), QueryCommand0>>,
   <<UpdateCommand(CONTEXT_N, Cmd.Add, 1, 1), QueryCommand0>>,
   <<UpdateCommand0, QueryCommand(CONTEXT_N, 0)>>}

\* The hardware either raises no notify or raises (CONTEXT_N - 1, 1, 1).
TBSampledNotify == {NotifyResponse0, NotifyResponse(CONTEXT_N - 1, 1, 1)}

\* A plausible slip: the hardware's reset signal is not consulted.
TrailingReset_blind(tbl, c, r, n) ==
  IF c = 1
  THEN /\ tbl_' = ValidationModel_reset(tbl)
       /\ resets' = n + 1
       /\ op' = "reset"
  ELSE /\ tbl_' = tbl
       /\ resets' = n
       /\ UNCHANGED op

\* VDriver::Drive(tb, up): the valid input always, the others when valid.
Drive_up(pins, up) ==
  IF up.vld
  THEN [vld |-> TRUE, prod_id |-> up.prod_id, cmd |-> up.cmd, key |-> up.key,
        size |-> up.volume]
  ELSE [pins EXCEPT !.vld = FALSE]

\* VDriver::Drive(tb, qc): the valid input always, the others when valid.
Drive_qc(pins, qc) ==
  IF qc.vld
  THEN [vld |-> TRUE, prod_id |-> qc.prod_id, level |-> qc.level]
  ELSE [pins EXCEPT !.vld = FALSE]

\* A plausible slip: the local up is not cleared before the test is asked.
Staged_up_stale(s, prev) == IF s.vld THEN s ELSE prev

\* The local up after "up = UpdateCommand{}" and the call of the test, which
\* assigns it when it supplies an update and leaves it alone otherwise.
Staged_up(s, prev) == IF s.vld THEN s ELSE UpdateCommand0

\* The local qc after "qc = QueryCommand{}" and the call of the test.
Staged_qc(s, prev) == IF s.vld THEN s ELSE QueryCommand0

\* The tail of every loop iteration: after eval(), mdl_.reset() when the
\* clock is high and the hardware is in reset.  c and r are clk and rst as
\* the iteration leaves them, tbl the table as the iteration's body left it.
TrailingReset(tbl, c, r, n) ==
  IF c = 1 /\ r
  THEN /\ tbl_' = ValidationModel_reset(tbl)
       /\ resets' = n + 1
       /\ op' = "reset"
  ELSE /\ tbl_' = tbl
       /\ resets' = n
       /\ UNCHANGED op

\* An iteration on which tb_time_ is not a multiple of 5.
TickIdle ==
  /\ do_stepping /\ ~returned
  /\ (tb_time_ + 1) % 5 # 0
  /\ tb_time_' = tb_time_ + 1
  /\ TrailingReset(tbl_, clk, rst, resets)
  /\ UNCHANGED <<notify_pipe_, queries_pipe_, uc_, qc_, qr_, nr_, pushes,
                 mismatch, nop_hist, cycle>>
  /\ UNCHANGED <<clk, rst, do_stepping, returned, status, calls, fatal>>
  /\ UNCHANGED stim_vars
  /\ UNCHANGED pipe_vars
  /\ UNCHANGED dir_vars

\* A plausible slip: the test is called on both edges.
TickRise_calls ==
  /\ do_stepping /\ ~returned
  /\ (tb_time_ + 1) % 5 = 0
  /\ clk = 0
  /\ tb_time_' = tb_time_ + 1
  /\ clk' = 1
  /\ calls' = calls + 1
  /\ TrailingReset(tbl_, 1, rst, resets)
  /\ UNCHANGED <<notify_pipe_, queries_pipe_, uc_, qc_, qr_, nr_, pushes,
                 mismatch, nop_hist, cycle>>
  /\ UNCHANGED <<rst, do_stepping, returned, status, fatal>>
  /\ UNCHANGED stim_vars
  /\ UNCHANGED pipe_vars
  /\ UNCHANGED dir_vars

\* An iteration on a multiple of 5 with the clock low: the clock rises.
TickRise ==
  /\ do_stepping /\ ~returned
  /\ (tb_time_ + 1) % 5 = 0
  /\ clk = 0
  /\ tb_time_' = tb_time_ + 1
  /\ clk' = 1
  /\ TrailingReset(tbl_, 1, rst, resets)
  /\ UNCHANGED <<notify_pipe_, queries_pipe_, uc_, qc_, qr_, nr_, pushes,
                 mismatch, nop_hist, cycle>>
  /\ UNCHANGED <<rst, do_stepping, returned, status, calls, fatal>>
  /\ UNCHANGED stim_vars
  /\ UNCHANGED pipe_vars
  /\ UNCHANGED dir_vars

\* A plausible slip: the directive is acted on before the model is stepped.
TickFall_directive_first(up, qc, nr, qr, st) ==
  LET t0 == IF st = "ApplyReset" THEN ValidationModel_reset(tbl_) ELSE tbl_
      r == ValidationModel_step(t0, notify_pipe_, queries_pipe_, up, qc, nr)
  IN /\ do_stepping /\ ~returned
     /\ (tb_time_ + 1) % 5 = 0
     /\ clk = 1
     /\ cycle < MaxTBCycles
     /\ tb_time_' = tb_time_ + 1
     /\ status' = st
     /\ calls' = calls + 1
     /\ tb_up' = up /\ tb_qc' = qc
     /\ i_upd' = Drive_up(i_upd, up)
     /\ i_lut' = Drive_qc(i_lut, qc)
     /\ uc_' = up /\ qc_' = qc /\ nr_' = nr /\ qr_' = qr
     /\ notify_pipe_' = r.notify_pipe
     /\ queries_pipe_' = r.queries_pipe
     /\ pushes' = r.pushes
     /\ mismatch' = r.mismatch
     /\ fatal' = (fatal \/ r.fatal)
     /\ nop_hist' = [j \in 0 .. UPDATE_PIPE_DELAY |->
                       IF j = 0 THEN AbsentKey(up, tbl_) ELSE nop_hist[j - 1]]
     /\ cycle' = cycle + 1
     /\ tbl_' = r.tbl
     /\ resets' = IF st = "ApplyReset" THEN resets + 1 ELSE resets
     /\ op' = "step"
     /\ rst' = CASE st = "ApplyReset" -> TRUE
                 [] st = "RescindReset" -> FALSE
                 [] OTHER -> rst
     /\ do_stepping' = (st # "Terminate")
     /\ clk' = 0
     /\ UNCHANGED returned
     /\ UNCHANGED pipe_vars
     /\ UNCHANGED dir_vars

\* An iteration on a multiple of 5 with the clock high, immediately before
\* the negative edge: the stimulus is cleared, the test is called, its
\* commands and the sampled responses are applied, the model steps, the
\* directive is switched on, and the clock falls.
TickFall(up, qc, nr, qr, st) ==
  LET r == ValidationModel_step(tbl_, notify_pipe_, queries_pipe_, up, qc, nr)
  IN /\ do_stepping /\ ~returned
     /\ (tb_time_ + 1) % 5 = 0
     /\ clk = 1
     /\ cycle < MaxTBCycles
     /\ tb_time_' = tb_time_ + 1
     /\ status' = st
     /\ calls' = calls + 1
     /\ tb_up' = up /\ tb_qc' = qc
     /\ i_upd' = Drive_up(i_upd, up)
     /\ i_lut' = Drive_qc(i_lut, qc)
     /\ uc_' = up /\ qc_' = qc /\ nr_' = nr /\ qr_' = qr
     /\ notify_pipe_' = r.notify_pipe
     /\ queries_pipe_' = r.queries_pipe
     /\ pushes' = r.pushes
     /\ mismatch' = r.mismatch
     /\ fatal' = (fatal \/ r.fatal)
     /\ nop_hist' = [j \in 0 .. UPDATE_PIPE_DELAY |->
                       IF j = 0 THEN AbsentKey(up, tbl_) ELSE nop_hist[j - 1]]
     /\ cycle' = cycle + 1
     /\ tbl_' = IF st = "ApplyReset" THEN ValidationModel_reset(r.tbl) ELSE r.tbl
     /\ resets' = IF st = "ApplyReset" THEN resets + 1 ELSE resets
     /\ op' = IF st = "ApplyReset" THEN "reset" ELSE "step"
     /\ rst' = CASE st = "ApplyReset" -> TRUE
                 [] st = "RescindReset" -> FALSE
                 [] OTHER -> rst
     /\ do_stepping' = (st # "Terminate")
     /\ clk' = 0
     /\ UNCHANGED returned
     /\ UNCHANGED pipe_vars
     /\ UNCHANGED dir_vars

\* The falling-edge iteration with whatever the test and the hardware give.
TickNegedge ==
  \E sq \in TBStimulus, nr \in TBSampledNotify, qr \in SampledQuery,
     st \in Directives :
       /\ tb_sup' = sq
       /\ TickFall(Staged_up(sq[1], tb_up), Staged_qc(sq[2], tb_qc), nr, qr, st)

\* A plausible slip: the loop is left after a call whatever it returned.
Return_any ==
  /\ calls > 0 /\ ~returned
  /\ returned' = TRUE
  /\ UNCHANGED mdl_vars
  /\ UNCHANGED pipe_vars
  /\ UNCHANGED dir_vars
  /\ UNCHANGED <<tb_time_, clk, rst, do_stepping, status, calls, resets, fatal>>
  /\ UNCHANGED stim_vars

\* while (do_stepping) is left and TB::run returns.
Return ==
  /\ ~do_stepping /\ ~returned
  /\ returned' = TRUE
  /\ UNCHANGED mdl_vars
  /\ UNCHANGED pipe_vars
  /\ UNCHANGED dir_vars
  /\ UNCHANGED <<tb_time_, clk, rst, do_stepping, status, calls, resets, fatal>>
  /\ UNCHANGED stim_vars

NextTB == TickIdle \/ TickRise \/ TickNegedge \/ Return

SpecTB == Init /\ [][NextTB]_vars

\* The loop is straight-line code: an iteration that can run does run.
SpecTBFair == SpecTB /\ WF_vars(NextTB)

(* ------------------------------------------------------------------ *)
(* SpecDir: the directed test, its program and its clock edges           *)
(* ------------------------------------------------------------------ *)

\* The (uc, qc) pairs a program gives to push_back.
DirCommands ==
  {<<UpdateCommand(0, Cmd.Add, 1, 1), QueryCommand0>>,
   <<UpdateCommand0, QueryCommand(0, 0)>>}

\* Directed::push_back(uc, qc)
DirPush ==
  /\ Len(d_pushed) < MaxEmits
  /\ \E c \in DirCommands :
        /\ d_' = Append(d_, Instruction_make_emit(c[1], c[2]))
        /\ d_pushed' = Append(d_pushed, c)
  /\ d_op' = "push_back"
  /\ UNCHANGED <<d_issued, d_last, d_idle, d_waits>>
  /\ UNCHANGED mdl_vars
  /\ UNCHANGED pipe_vars
  /\ UNCHANGED tb_vars

\* Directed::wait_cycles(n)
DirWait ==
  /\ d_waits < MaxWaits
  /\ \E n \in 0 .. MaxWait : d_' = Append(d_, Instruction_make_wait(n))
  /\ d_waits' = d_waits + 1
  /\ d_op' = "wait_cycles"
  /\ UNCHANGED <<d_pushed, d_issued, d_last, d_idle>>
  /\ UNCHANGED mdl_vars
  /\ UNCHANGED pipe_vars
  /\ UNCHANGED tb_vars

\* One falling clock edge: the kernel calls on_negedge_clk.
DirNegedge ==
  LET r == Directed_on_negedge_clk(d_)
  IN /\ d_' = r.d
     /\ d_last' = [any |-> r.any, uc |-> r.uc, qc |-> r.qc]
     /\ d_issued' = IF r.emit THEN Append(d_issued, <<r.uc, r.qc>>)
                     ELSE d_issued
     /\ d_idle' = IF Len(r.d) = Len(d_) /\ d_ # <<>> THEN d_idle + 1 ELSE 0
     /\ d_op' = "edge"
     /\ UNCHANGED <<d_pushed, d_waits>>
     /\ UNCHANGED mdl_vars
     /\ UNCHANGED pipe_vars
     /\ UNCHANGED tb_vars

NextDir == DirPush \/ DirWait \/ DirNegedge

SpecDir == Init /\ [][NextDir]_vars

\* The kernel's clock keeps running: an edge that can come does come.
SpecDirFair == SpecDir /\ WF_vars(DirNegedge)

(* ------------------------------------------------------------------ *)
(* Properties                                                           *)
(* ------------------------------------------------------------------ *)

\* The slot the last push_back of a cycle wrote: the prediction staged by
\* that cycle.
Staged(pipe) == pipe.p[pipe.wr_ptr]

Sorted(s) == \A j \in 1 .. Len(s) - 1 : s[j].key <= s[j + 1].key

\* The sorted sequence pre with e placed behind every entry whose key is not
\* greater than e's, the other entries keeping their order.
PlacedAfterEquals(pre, e) ==
  LET n == Cardinality({j \in 1 .. Len(pre) : pre[j].key <= e.key})
  IN SubSeq(pre, 1, n) \o <<e>> \o SubSeq(pre, n + 1, Len(pre))

\* C1: with one push_back between successive steps, head() in cycle c is the
\* value pushed in cycle c - UPDATE_PIPE_DELAY (T{} before that), and no
\* valid value pushed in any other cycle is returned by head() in cycle c.
C1_LatencyAlignment ==
  LET h == DelayPipe_head(dp)
      due == dcycle - UPDATE_PIPE_DELAY
  IN /\ h = IF due >= 0 THEN dpushed[due + 1] ELSE NotifyResponse0
     /\ \A t \in 0 .. Len(dpushed) - 1 :
          (dpushed[t + 1].vld /\ t # due) => h # dpushed[t + 1]

\* C1 witness: the value pushed at cycle 10 is at the head in cycle 14.
C1_Witness ==
  /\ dcycle = 14
  /\ Len(dpushed) >= 11
  /\ dpushed[11] = NotifyResponse(0, 10, 0)
  /\ DelayPipe_head(dp) = dpushed[11]

\* C2: a valid Delete or Replace of an absent key leaves the table unchanged,
\* and the prediction compared UPDATE_PIPE_DELAY steps after it is invalid.
C2_AbsentKeyNoNotify ==
  [][op' = "step" =>
       /\ AbsentKey(uc_', tbl_) => tbl_' = tbl_
       /\ nop_hist'[UPDATE_PIPE_DELAY] => ~DelayPipe_head(notify_pipe_').vld]_vars

\* Whether uc changes which entry occupies rank 0 of ctxt: a Clr of a
\* non-empty context, an Add that populates an empty context or sorts before
\* the head, a Del or Rep that matches the head.
HeadChanges(uc, ctxt) ==
  CASE uc.cmd = Cmd.Clr -> ctxt # <<>>
    [] uc.cmd = Cmd.Add -> ctxt = <<>> \/ uc.key < ctxt[1].key
    [] OTHER -> ctxt # <<>> /\ ctxt[1].key = uc.key

\* C3: a valid update stages a valid notify iff it changes which entry
\* occupies rank 0 of its context.
C3_NotifyIffHeadChanges ==
  [][(op' = "step" /\ uc_'.vld) =>
       (Staged(notify_pipe_').vld <=> HeadChanges(uc_', tbl_[uc_'.prod_id]))]_vars

\* C4: an Add stages a valid notify exactly when its context was empty, and
\* the notify then carries the command's context id, key and volume.
C4_AddNotifyIffEmpty ==
  [][(op' = "step" /\ uc_'.vld /\ uc_'.cmd = Cmd.Add) =>
       /\ pushes'.notify = 1
       /\ Staged(notify_pipe_') =
            IF tbl_[uc_'.prod_id] = <<>>
            THEN NotifyResponse(uc_'.prod_id, uc_'.key, uc_'.volume)
            ELSE NotifyResponse0]_vars

\* C4 witness: an Add that became the new head of a non-empty context and
\* staged no notify.
C4_Witness ==
  /\ op = "step" /\ uc_.vld /\ uc_.cmd = Cmd.Add
  /\ Len(tbl_[uc_.prod_id]) = 2
  /\ tbl_[uc_.prod_id][1] = Entry(uc_.key, uc_.volume)
  /\ tbl_[uc_.prod_id][1].key < tbl_[uc_.prod_id][2].key
  /\ ~Staged(notify_pipe_).vld

\* C5: after reset() every context is empty and both pipes are as cleared.
C5_ResetClearsPipes ==
  op = "reset" =>
    /\ \A i \in Ids : tbl_[i] = <<>>
    /\ notify_pipe_ = DelayPipe_clear(UPDATE_PIPE_DELAY, NotifyResponse0)
    /\ queries_pipe_ = DelayPipe_clear(QUERY_PIPE_DELAY, QueryResponse0)

\* C6: every step() makes exactly one push_back on each pipe.
C6_OnePushPerStep ==
  op = "step" => (pushes.notify = 1 /\ pushes.query = 1)

\* C7: every context stays sorted by key; an Add places its entry behind the
\* entries of equal key and moves no other entry, a Del removes at most one
\* entry and a Rep keeps every key in place.
C7_SortedStable ==
  [][\A i \in Ids :
       /\ Sorted(tbl_'[i])
       /\ (op' = "step" /\ uc_'.vld /\ uc_'.prod_id = i) =>
            LET pre == tbl_[i]
                post == tbl_'[i]
            IN CASE uc_'.cmd = Cmd.Clr -> post = <<>>
                 [] uc_'.cmd = Cmd.Add ->
                      post = SubSeq(PlacedAfterEquals(pre,
                                      Entry(uc_'.key, uc_'.volume)), 1, Len(post))
                 [] uc_'.cmd = Cmd.Del ->
                      \/ post = pre
                      \/ \E j \in 1 .. Len(pre) :
                           post = SubSeq(pre, 1, j - 1) \o SubSeq(pre, j + 1, Len(pre))
                 [] OTHER ->
                      /\ Len(post) = Len(pre)
                      /\ \A j \in 1 .. Len(pre) : post[j].key = pre[j].key]_vars

\* C7 witness: two entries of equal key stand in the order they were added,
\* which is not the order of their volumes.
C7_Witness ==
  /\ op = "step" /\ uc_.vld /\ uc_.cmd = Cmd.Add
  /\ Len(tbl_[uc_.prod_id]) = 2
  /\ tbl_[uc_.prod_id][2] = Entry(uc_.key, uc_.volume)
  /\ tbl_[uc_.prod_id][1].key = uc_.key
  /\ tbl_[uc_.prod_id][1].volume > uc_.volume

\* C8: no context exceeds ENTRIES_N; an Add to a full context drops exactly
\* the last entry of the stably sorted result, which has the maximum key and
\* is the new entry itself when no existing key is greater.
C8_Capacity ==
  [][/\ \A i \in Ids : Len(tbl_'[i]) <= ENTRIES_N
     /\ (op' = "step" /\ uc_'.vld /\ uc_'.cmd = Cmd.Add
           /\ Len(tbl_[uc_'.prod_id]) = ENTRIES_N) =>
          LET pre == tbl_[uc_'.prod_id]
              post == tbl_'[uc_'.prod_id]
              e == Entry(uc_'.key, uc_'.volume)
              full == PlacedAfterEquals(pre, e)
              dropped == full[Len(full)]
          IN /\ Len(post) = ENTRIES_N
             /\ post = SubSeq(full, 1, ENTRIES_N)
             /\ \A j \in 1 .. Len(pre) : pre[j].key <= dropped.key
             /\ e.key <= dropped.key
             /\ (\A j \in 1 .. Len(pre) : pre[j].key <= e.key) =>
                  (dropped = e /\ post = pre)]_vars

\* C8 witness: an Add whose entry is not in its context afterwards, i.e. the
\* context was full and the new entry was the one dropped.
C8_Witness ==
  /\ op = "step" /\ uc_.vld /\ uc_.cmd = Cmd.Add
  /\ Len(tbl_[uc_.prod_id]) = ENTRIES_N
  /\ \A j \in 1 .. ENTRIES_N :
       tbl_[uc_.prod_id][j] # Entry(uc_.key, uc_.volume)

\* C9: the response staged for a valid query of level L on a context of size
\* S has error = (L >= S); on error key, volume and listsize are zero,
\* otherwise key and volume are those of rank L and listsize is S.
C9_QueryResponse ==
  (op = "step" /\ qc_.vld) =>
    LET ctxt == tbl_[qc_.prod_id]
        qr == Staged(queries_pipe_)
    IN /\ qr.vld
       /\ qr.error = (qc_.level >= Len(ctxt))
       /\ qr.error => (qr.key = 0 /\ qr.volume = 0 /\ qr.listsize = 0)
       /\ ~qr.error =>
            /\ qr.key = ctxt[qc_.level + 1].key
            /\ qr.volume = ctxt[qc_.level + 1].volume
            /\ qr.listsize = Len(ctxt)

\* C9 witness: a query of rank 1 answered without error from a context of
\* two entries with different keys.
C9_Witness ==
  /\ op = "step" /\ qc_.vld /\ qc_.level = 1
  /\ Len(tbl_[qc_.prod_id]) = 2
  /\ tbl_[qc_.prod_id][1].key # tbl_[qc_.prod_id][2].key
  /\ ~Staged(queries_pipe_).error
  /\ Staged(queries_pipe_).key = tbl_[qc_.prod_id][2].key

\* C10: a Clr of a non-empty context stages a notify with the command's
\* context id and the key and volume of the head before the clear, a Clr of
\* an empty context stages no notify, and the context is empty afterwards.
C10_ClearNotify ==
  [][(op' = "step" /\ uc_'.vld /\ uc_'.cmd = Cmd.Clr) =>
       LET pre == tbl_[uc_'.prod_id]
       IN /\ pushes'.notify = 1
          /\ Staged(notify_pipe_') =
               IF pre # <<>>
               THEN NotifyResponse(uc_'.prod_id, pre[1].key, pre[1].volume)
               ELSE NotifyResponse0
          /\ tbl_'[uc_'.prod_id] = <<>>]_vars

\* C10 witness: a Clr that emptied a context and staged a notify for the
\* head it discarded.
C10_Witness ==
  /\ op = "step" /\ uc_.vld /\ uc_.cmd = Cmd.Clr
  /\ tbl_[uc_.prod_id] = <<>>
  /\ Staged(notify_pipe_).vld
  /\ Staged(notify_pipe_).prod_id = uc_.prod_id

\* C11: a Del or Rep whose key is found stages a notify exactly when the
\* matched entry is the head, carrying the head's key and volume from before
\* the mutation; Rep changes only the volume of the matched entry and Del
\* removes the matched entry and nothing else.
C11_RepDelFound ==
  [][(op' = "step" /\ uc_'.vld /\ uc_'.cmd \in {Cmd.Del, Cmd.Rep}
        /\ ~AbsentKey(uc_', tbl_)) =>
       LET pre == tbl_[uc_'.prod_id]
           post == tbl_'[uc_'.prod_id]
           m == CHOOSE j \in 1 .. Len(pre) :
                  /\ pre[j].key = uc_'.key
                  /\ \A k \in 1 .. j - 1 : pre[k].key # uc_'.key
       IN /\ pushes'.notify = 1
          /\ Staged(notify_pipe_') =
               IF m = 1
               THEN NotifyResponse(uc_'.prod_id, pre[1].key, pre[1].volume)
               ELSE NotifyResponse0
          /\ uc_'.cmd = Cmd.Rep =>
               /\ Len(post) = Len(pre)
               /\ \A j \in 1 .. Len(pre) :
                    /\ post[j].key = pre[j].key
                    /\ post[j].volume = IF j = m THEN uc_'.volume ELSE pre[j].volume
          /\ uc_'.cmd = Cmd.Del =>
               /\ Len(post) = Len(pre) - 1
               /\ \A j \in 1 .. Len(post) :
                    post[j] = IF j < m THEN pre[j] ELSE pre[j + 1]]_vars

\* C11 witness: a Rep of the head that changed its volume and staged a
\* notify with the volume the head had before.
C11_Witness ==
  /\ op = "step" /\ uc_.vld /\ uc_.cmd = Cmd.Rep
  /\ Len(tbl_[uc_.prod_id]) = 2
  /\ tbl_[uc_.prod_id][1] = Entry(uc_.key, uc_.volume)
  /\ Staged(notify_pipe_).vld
  /\ Staged(notify_pipe_).key = uc_.key
  /\ Staged(notify_pipe_).volume # uc_.volume

\* Whether the commands applied in the last falling-edge cycle carry a
\* context id outside [0, CONTEXT_N).
OutOfRange(uc, qc) ==
  \/ uc.vld /\ ~(uc.prod_id < CONTEXT_N)
  \/ qc.vld /\ ~(qc.prod_id < CONTEXT_N)

\* C12: a valid UpdateCommand or QueryCommand whose context id is outside
\* [0, CONTEXT_N) aborts the run at once: the cycle that carries it mutates
\* no context for it, and after it no later cycle is stepped or compared.
C12_OutOfRangeAborts ==
  [][/\ (calls' = calls + 1 /\ OutOfRange(uc_', qc_') /\ status' # "ApplyReset")
          => tbl_' = tbl_
     /\ (calls > 0 /\ OutOfRange(uc_, qc_))
          => (cycle' = cycle /\ calls' = calls)]_vars

\* C13: a notify mismatch never stops the drive loop and never alters the
\* model: a mismatching cycle leaves the contexts and both pipes exactly as
\* the same cycle would have with the hardware agreeing with the prediction,
\* and the loop goes on unless that cycle's directive was Terminate.
C13_MismatchContinues ==
  /\ [][(calls' = calls + 1 /\ mismatch') =>
          LET predicted == DelayPipe_head(DelayPipe_step(notify_pipe_, UPDATE_PIPE_DELAY))
              r == ValidationModel_step(tbl_, notify_pipe_, queries_pipe_,
                                        uc_', qc_', predicted)
          IN /\ ~r.mismatch
             /\ notify_pipe_' = r.notify_pipe
             /\ queries_pipe_' = r.queries_pipe
             /\ tbl_' = IF status' = "ApplyReset"
                        THEN [i \in Ids |-> <<>>] ELSE r.tbl
             /\ do_stepping' = (status' # "Terminate")]_vars
  /\ [](mismatch /\ status # "Terminate" => do_stepping /\ ~returned)

\* C13 witness: a cycle whose sampled notify was valid against an invalid
\* prediction, the Add of that cycle in its context and staged in the pipe,
\* and the loop gone on to the next rising edge.
C13_Witness ==
  /\ mismatch /\ nr_.vld
  /\ uc_.vld /\ uc_.prod_id < CONTEXT_N
  /\ tbl_[uc_.prod_id] # <<>>
  /\ Staged(notify_pipe_).vld
  /\ do_stepping /\ ~returned /\ clk = 1

\* C14: TB::run ends exactly when the test returns Terminate: the loop is
\* left only with Terminate as the last directive and is left by the very
\* iteration that received it, the test is never called again after its
\* first Terminate, and a Terminate is always followed by the return.
C14_EndsOnTerminate ==
  /\ []((~do_stepping \/ returned) <=> status = "Terminate")
  /\ [][status = "Terminate" => (calls' = calls /\ cycle' = cycle)]_vars
  /\ (status = "Terminate") ~> returned

\* C14 witness: the run has returned on a Terminate that came after
\* directives of other kinds.
C14_Witness ==
  /\ returned /\ status = "Terminate"
  /\ calls = 3 /\ resets > 0

\* C15: ApplyReset asserts the hardware reset and resets the model; the
\* reset stays asserted until a RescindReset directive; while it is asserted
\* every rising clock transition resets the model, so every context is empty
\* whenever the clock is high in reset, that is at the start of each
\* falling-edge step taken in reset; and no reset is made that leaves the
\* hardware reset deasserted, so none follows a RescindReset.
C15_ResetWindow ==
  /\ [][(calls' = calls + 1 /\ status' = "ApplyReset")
          => (rst' /\ \A i \in Ids : tbl_'[i] = <<>>)]_vars
  /\ [][(rst /\ ~rst') => (calls' = calls + 1 /\ status' = "RescindReset")]_vars
  /\ [][(rst /\ clk = 0 /\ clk' = 1)
          => (resets' = resets + 1 /\ \A i \in Ids : tbl_'[i] = <<>>)]_vars
  /\ []((rst /\ clk = 1) => \A i \in Ids : tbl_[i] = <<>>)
  /\ [][resets' # resets => rst']_vars

\* C15 witness: ApplyReset, a Continue in reset, RescindReset with an Add,
\* and the next rising edge passed with the added entry still in place.
C15_Witness ==
  /\ ~rst /\ status = "RescindReset" /\ clk = 1
  /\ calls = 3 /\ resets = 11
  /\ tbl_[CONTEXT_N - 1] # <<>>

\* Whether a predicted and a sampled NotifyResponse disagree: on validity,
\* or, both being valid, on context id, key or volume.
Differs(predicted, actual) ==
  IF predicted.vld /\ actual.vld
  THEN <<predicted.prod_id, predicted.key, predicted.volume>>
         # <<actual.prod_id, actual.key, actual.volume>>
  ELSE predicted.vld # actual.vld

\* C16: in every falling-edge cycle the commands and samples of that cycle
\* are applied, then the model steps, then the notify comparison is made,
\* and only then is the directive acted on: whatever the directive, the
\* model is stepped once and compared against this cycle's sample, an Add is
\* processed against the contexts as they were before the directive, and
\* with ApplyReset the contexts are empty afterwards while with Terminate
\* the entry is in place when the loop is left.
C16_CycleOrder ==
  [][calls' = calls + 1 =>
       LET id == uc_'.prod_id
           addIn == uc_'.vld /\ uc_'.cmd = Cmd.Add /\ id < CONTEXT_N
       IN /\ cycle' = cycle + 1
          /\ notify_pipe_'.rd_ptr = (notify_pipe_.rd_ptr + 1) % (UPDATE_PIPE_DELAY + 1)
          /\ mismatch' = Differs(DelayPipe_head(notify_pipe_'), nr_')
          /\ addIn =>
               Staged(notify_pipe_') =
                 IF tbl_[id] = <<>>
                 THEN NotifyResponse(id, uc_'.key, uc_'.volume)
                 ELSE NotifyResponse0
          /\ (addIn /\ status' = "ApplyReset") => \A i \in Ids : tbl_'[i] = <<>>
          /\ (addIn /\ status' # "ApplyReset") =>
               \E j \in 1 .. Len(tbl_'[id]) :
                  tbl_'[id][j] = Entry(uc_'.key, uc_'.volume)
          /\ do_stepping' = (status' # "Terminate")]_vars

\* C16 witness: an Add returned together with ApplyReset was processed, its
\* notify is staged and the comparison was made, and the contexts are empty.
C16_Witness ==
  /\ status = "ApplyReset" /\ clk = 0 /\ rst
  /\ uc_.vld /\ uc_.cmd = Cmd.Add /\ uc_.prod_id < CONTEXT_N
  /\ Staged(notify_pipe_) = NotifyResponse(uc_.prod_id, uc_.key, uc_.volume)
  /\ mismatch
  /\ \A i \in Ids : tbl_[i] = <<>>

\* C17: on_negedge_clk is called exactly once per clock period of ten
\* ticks, exactly on the iterations on which the clock goes from high to
\* low and never when it rises, and the model is stepped exactly once per
\* call.
C17_OncePerPeriod ==
  /\ [][/\ (calls' # calls) <=> (clk = 1 /\ clk' = 0)
        /\ (calls' # calls) => (calls' = calls + 1)
        /\ (clk = 0 /\ clk' = 1) => (calls' = calls /\ cycle' = cycle)
        /\ cycle' - cycle = calls' - calls]_vars
  /\ [](calls = tb_time_ \div 10 /\ cycle = calls)

\* C17 witness: two full periods done and the clock high again, two calls
\* made and two steps taken.
C17_Witness ==
  /\ tb_time_ = 25 /\ clk = 1
  /\ calls = 2 /\ cycle = 2

\* The model as its constructor leaves it: contexts empty, pipes cleared.
Pristine(tbl, np, qp) ==
  /\ \A i \in Ids : tbl[i] = <<>>
  /\ np = DelayPipe_clear(UPDATE_PIPE_DELAY, NotifyResponse0)
  /\ qp = DelayPipe_clear(QUERY_PIPE_DELAY, QueryResponse0)

\* C18: reset() is idempotent: called on the model in its initial empty
\* state it leaves every context empty and both pipes cleared; called in
\* any state it empties every context and touches nothing else, and a
\* second reset() right after it changes nothing at all.
C18_ResetIdempotent ==
  [][op' = "reset" =>
       /\ \A i \in Ids : tbl_'[i] = <<>>
       /\ UNCHANGED <<notify_pipe_, queries_pipe_, uc_, qc_, qr_, nr_>>
       /\ Pristine(tbl_, notify_pipe_, queries_pipe_)
            => Pristine(tbl_', notify_pipe_', queries_pipe_')
       /\ ValidationModel_reset(tbl_') = tbl_'
       /\ op = "reset" => UNCHANGED mdl_vars]_vars

\* C18 witness: a reset made mid-sequence, after an Add of the last step
\* had left its context non-empty, with every context empty after it.
C18_Witness ==
  /\ op = "reset" /\ cycle >= 2
  /\ uc_.vld /\ uc_.cmd = Cmd.Add
  /\ Staged(notify_pipe_).vld
  /\ \A i \in Ids : tbl_[i] = <<>>

\* C19: the mismatch signalled by a step is exactly that the predicted
\* head and the sampled NotifyResponse of that step differ in validity or,
\* both being valid, in context id, key or volume; with both invalid, or
\* both valid and equal in all three fields, none is signalled.
C19_MismatchIff ==
  LET predicted == DelayPipe_head(notify_pipe_)
  IN /\ mismatch <=> Differs(predicted, nr_)
     /\ (~predicted.vld /\ ~nr_.vld) => ~mismatch
     /\ (predicted.vld /\ nr_.vld /\ predicted.prod_id = nr_.prod_id
           /\ predicted.key = nr_.key /\ predicted.volume = nr_.volume)
          => ~mismatch

\* C19 witness: a valid prediction at the head compared with a valid sample
\* of the same context and key but another volume, and a mismatch signalled.
C19_Witness ==
  LET predicted == DelayPipe_head(notify_pipe_)
  IN /\ op = "step" /\ mismatch
     /\ predicted.vld /\ nr_.vld
     /\ predicted.prod_id = nr_.prod_id
     /\ predicted.key = nr_.key
     /\ predicted.volume # nr_.volume

\* C20: whatever the order of push_back, step, head and clear calls on a
\* DelayPipe<T, N>, both cursors lie in [0, N] and the write cursor is the
\* read cursor plus N modulo N + 1; push_back and head move neither cursor,
\* and step advances each by exactly one slot, wrapping at N.
C20_CursorInvariant ==
  /\ [](/\ dp.wr_ptr \in 0 .. UPDATE_PIPE_DELAY
        /\ dp.rd_ptr \in 0 .. UPDATE_PIPE_DELAY
        /\ dp.wr_ptr = (dp.rd_ptr + UPDATE_PIPE_DELAY) % (UPDATE_PIPE_DELAY + 1))
  /\ [][dop' \in {"push_back", "head"}
          => (dp'.wr_ptr = dp.wr_ptr /\ dp'.rd_ptr = dp.rd_ptr)]_vars
  /\ [][dop' = "step"
          => /\ dp'.wr_ptr = (dp.wr_ptr + 1) % (UPDATE_PIPE_DELAY + 1)
             /\ dp'.rd_ptr = (dp.rd_ptr + 1) % (UPDATE_PIPE_DELAY + 1)]_vars

\* C20 witness: a step has just wrapped the write cursor past slot N, which
\* holds a value pushed before, and the read cursor is one slot ahead.
C20_Witness ==
  /\ dop = "step"
  /\ dp.wr_ptr = 0 /\ dp.rd_ptr = 1
  /\ dp.p[UPDATE_PIPE_DELAY].vld

\* C21: an update addressed to context i leaves every other context as it
\* was, a step without a valid update (a query alone included) leaves every
\* context as it was, and a context changes only in a step whose update is
\* addressed to it or in a reset.
C21_Frame ==
  [][/\ (op' = "step" /\ uc_'.vld)
          => \A j \in Ids : j # uc_'.prod_id => tbl_'[j] = tbl_[j]
     /\ (op' = "step" /\ ~uc_'.vld) => tbl_' = tbl_
     /\ \A j \in Ids :
          tbl_'[j] # tbl_[j]
            => \/ op' = "reset"
               \/ op' = "step" /\ uc_'.vld /\ uc_'.prod_id = j]_vars

\* C21 witness: a Clr emptied its non-empty context in a step that also
\* queried another context, and that other context still holds its entry.
C21_Witness ==
  /\ op = "step" /\ uc_.vld /\ uc_.cmd = Cmd.Clr
  /\ Staged(notify_pipe_).vld
  /\ tbl_[uc_.prod_id] = <<>>
  /\ qc_.vld /\ qc_.prod_id # uc_.prod_id
  /\ tbl_[qc_.prod_id] # <<>>

\* C22: when a valid update and a valid query address the same context in
\* one step, the response staged in the query pipe is computed from the
\* context as the update left it: an error when the level is not below the
\* size after the update, otherwise the entry at that level after the
\* update together with that size.
C22_UpdateBeforeQuery ==
  [][(op' = "step" /\ uc_'.vld /\ qc_'.vld /\ uc_'.prod_id = qc_'.prod_id) =>
       LET post == tbl_'[qc_'.prod_id]
       IN Staged(queries_pipe_') =
            IF qc_'.level >= Len(post)
            THEN QueryResponse(0, 0, TRUE, 0)
            ELSE QueryResponse(post[qc_'.level + 1].key,
                               post[qc_'.level + 1].volume, FALSE, Len(post))]_vars

\* C22 witness: a query of level 0 issued together with an Add to an empty
\* context was answered with the added entry, without error.
C22_Witness ==
  /\ op = "step" /\ uc_.vld /\ uc_.cmd = Cmd.Add
  /\ qc_.vld /\ qc_.prod_id = uc_.prod_id /\ qc_.level = 0
  /\ Staged(notify_pipe_) = NotifyResponse(uc_.prod_id, uc_.key, uc_.volume)
  /\ tbl_[uc_.prod_id] = <<Entry(uc_.key, uc_.volume)>>
  /\ Staged(queries_pipe_) = QueryResponse(uc_.key, uc_.volume, FALSE, 1)

\* C23: in every falling-edge cycle the commands applied to the model and
\* driven onto the hardware are exactly those the test supplied in that
\* cycle's call: what it supplied is applied and driven field by field, and
\* where it supplied nothing an invalid command is applied and the valid
\* input of the hardware is low, whatever was issued in earlier cycles.
C23_StimulusCleared ==
  [][calls' = calls + 1 =>
       LET su == tb_sup'[1]
           sq == tb_sup'[2]
       IN /\ uc_' = su /\ qc_' = sq
          /\ i_upd'.vld = su.vld
          /\ su.vld => /\ i_upd'.prod_id = su.prod_id
                       /\ i_upd'.cmd = su.cmd
                       /\ i_upd'.key = su.key
                       /\ i_upd'.size = su.volume
          /\ i_lut'.vld = sq.vld
          /\ sq.vld => /\ i_lut'.prod_id = sq.prod_id
                       /\ i_lut'.level = sq.level
          /\ ~su.vld => ~uc_'.vld
          /\ ~sq.vld => ~qc_'.vld]_vars

\* C23 witness: a cycle in which the test supplied nothing, after a cycle
\* in which it had supplied an Add: the model got an invalid update and the
\* hardware's valid input is low over the payload of the earlier Add.
C23_Witness ==
  /\ calls >= 2 /\ clk = 0
  /\ ~tb_sup[1].vld /\ ~tb_sup[2].vld
  /\ ~uc_.vld /\ ~qc_.vld
  /\ ~i_upd.vld /\ i_upd.cmd = Cmd.Add /\ i_upd.key = 1
  /\ ~i_lut.vld

\* C24: with several entries of the same key in a context, a Del of that
\* key removes exactly one entry and a Rep changes the volume of exactly
\* one; the entry affected is the first match in the sorted order, every
\* other entry is left as it was, and, each Add being stamped with its
\* cycle, the entry affected is the one added earliest among the matches.
C24_FirstOfEqualKeys ==
  [][(op' = "step" /\ uc_'.vld /\ uc_'.cmd \in {Cmd.Del, Cmd.Rep}) =>
       LET pre == tbl_[uc_'.prod_id]
           post == tbl_'[uc_'.prod_id]
           M == {j \in 1 .. Len(pre) : pre[j].key = uc_'.key}
       IN Cardinality(M) >= 2 =>
            \E m \in M :
              /\ \A j \in M : m <= j
              /\ (\A j \in M : pre[j].volume # 0)
                   => \A j \in M : pre[m].volume <= pre[j].volume
              /\ uc_'.cmd = Cmd.Del =>
                   /\ Len(post) = Len(pre) - 1
                   /\ \A j \in 1 .. Len(post) :
                        post[j] = IF j < m THEN pre[j] ELSE pre[j + 1]
              /\ uc_'.cmd = Cmd.Rep =>
                   /\ Len(post) = Len(pre)
                   /\ post[m] = Entry(pre[m].key, uc_'.volume)
                   /\ \A j \in 1 .. Len(pre) : j # m => post[j] = pre[j]]_vars

\* C24 witness: two Adds of one key in cycles 0 and 1, then a Del of that
\* key: the entry of the second Add is the one that remains.
C24_Witness ==
  /\ op = "step" /\ cycle = 3
  /\ uc_.vld /\ uc_.cmd = Cmd.Del
  /\ tbl_[uc_.prod_id] = <<Entry(uc_.key, 2)>>
  /\ Staged(notify_pipe_) = NotifyResponse(uc_.prod_id, uc_.key, 1)

\* The (uc, qc) pairs of the Emit instructions of a queue, front first.
RECURSIVE Emits(_)
Emits(d) ==
  IF d = <<>> THEN <<>>
  ELSE IF Head(d).op = "Emit"
       THEN <<<<Head(d).uc, Head(d).qc>>>> \o Emits(Tail(d))
       ELSE Emits(Tail(d))

C26_WaitCycles ==
  [][(d_op' = "edge" /\ d_ # <<>> /\ Head(d_).op = "WaitCycles") =>
       /\ d_last'.any /\ ~d_last'.uc.vld /\ ~d_last'.qc.vld
       /\ d_idle + 1 <= Head(d_).n0
       /\ (d_' = Tail(d_)) <=> (d_idle + 1 = Head(d_).n0)]_vars

====
